---- MODULE Spec2Model ----
(***************************************************************************)
(* Model of link_checker.py: extract_urls_from_js, check_link and main.    *)
(*                                                                         *)
(* Text is modelled as a sequence of lexical tokens [t, s]: t is the kind  *)
(* of the token (a punctuation character, "ws" for one whitespace          *)
(* character, "dq"/"sq"/"bq" for a string literal delimited by double      *)
(* quotes, single quotes or backticks, "word" for an identifier or         *)
(* keyword, "num" for a number literal) and s is its text.  String         *)
(* contents are atoms: they hold no quote, comma, brace or bracket.        *)
(***************************************************************************)
EXTENDS Integers, Sequences, FiniteSets, TLC

VARIABLES
    fileExists,     \* whether HTML_FILE_PATH names an existing file
    html_content,   \* the text of the file
    pc,             \* position of the run
    found_arrays,   \* extract_urls_from_js: result of findall
    bi,             \* extract_urls_from_js: index of the block the for loop is at
    urls,           \* extract_urls_from_js: the set of URLs
    warnings,       \* names of the arrays a parse warning was printed for
    urls_to_check,  \* main: the list returned by extract_urls_from_js
    probes,         \* the HEAD requests issued so far: [url, outcome]
    results,        \* the status line printed for each URL: [url, status]
    broken_links,   \* main: the (url, status) pairs with status # "OK"
    reported,       \* the number of broken links the summary printed, -1 if none
    exitCode,       \* exit code of the process, -1 while it runs
    error           \* the uncaught exception that ended the process, "none" if none

vars == <<fileExists, html_content, pc, found_arrays, bi, urls, warnings,
          urls_to_check, probes, results, broken_links, reported, exitCode, error>>

-----------------------------------------------------------------------------
(* Bounds of the enumerated inputs *)

MaxBlocks == 2
MaxItems == 2

-----------------------------------------------------------------------------
(* Tokens *)

P(c) == [t |-> c, s |-> ""]
Str(q, s) == [t |-> q, s |-> s]
Word(s) == [t |-> "word", s |-> s]
Num(s) == [t |-> "num", s |-> s]
WS == P("ws")

-----------------------------------------------------------------------------
(* re: the pattern of line 29 and the substitutions of lines 45 and 47 *)

\* \s* : the first position at or after i that holds no whitespace
RECURSIVE SkipWs(_, _)
SkipWs(text, i) ==
    IF i <= Len(text) /\ text[i].t = "ws" THEN SkipWs(text, i + 1) ELSE i

\* .*?\]; : the first "]" at or after i that is directly followed by ";", 0 if none
RECURSIVE CloseAt(_, _)
CloseAt(text, i) ==
    IF i >= Len(text) THEN 0
    ELSE IF text[i].t = "]" /\ text[i + 1].t = ";" THEN i
    ELSE CloseAt(text, i + 1)

NoMatch == [ok |-> FALSE, name |-> "", content |-> <<>>, end |-> 0]

\* const\s+(institutes|jobBoards)\s*=\s*(\[.*?\]); matched at position i
MatchAt(text, i) ==
    LET b == SkipWs(text, i + 1)
        c == SkipWs(text, b + 1)
        d == SkipWs(text, c + 1)
        e == CloseAt(text, d + 1)
    IN  IF /\ i <= Len(text) /\ text[i] = Word("const")
           /\ b > i + 1
           /\ b <= Len(text) /\ text[b] \in {Word("institutes"), Word("jobBoards")}
           /\ c <= Len(text) /\ text[c] = P("=")
           /\ d <= Len(text) /\ text[d] = P("[")
           /\ e # 0
        THEN [ok |-> TRUE, name |-> text[b].s, content |-> SubSeq(text, d, e),
              end |-> e + 1]
        ELSE NoMatch

\* js_array_pattern.findall: leftmost matches, none overlapping
RECURSIVE FindAllFrom(_, _)
FindAllFrom(text, i) ==
    IF i > Len(text) THEN <<>>
    ELSE LET m == MatchAt(text, i)
         IN  IF m.ok
             THEN <<[name |-> m.name, content |-> m.content]>>
                      \o FindAllFrom(text, m.end + 1)
             ELSE FindAllFrom(text, i + 1)

findall(text) == FindAllFrom(text, 1)

\* .replace("'", '"').replace('`', '"')
ReplaceQuotes(text) ==
    [i \in DOMAIN text |->
        IF text[i].t \in {"sq", "bq"} THEN Str("dq", text[i].s) ELSE text[i]]

\* re.sub(r',\s*<close>', '<close>', text) from position i on
RECURSIVE SubFrom(_, _, _)
SubFrom(text, close, i) ==
    IF i > Len(text) THEN <<>>
    ELSE LET j == SkipWs(text, i + 1)
         IN  IF text[i].t = "," /\ j <= Len(text) /\ text[j].t = close
             THEN <<P(close)>> \o SubFrom(text, close, j + 1)
             ELSE <<text[i]>> \o SubFrom(text, close, i + 1)

\* as StripTrailing, the pattern being ',<close>' with no \s*
RECURSIVE SubTightFrom(_, _, _)
SubTightFrom(text, close, i) ==
    IF i > Len(text) THEN <<>>
    ELSE IF text[i].t = "," /\ i < Len(text) /\ text[i + 1].t = close
         THEN <<P(close)>> \o SubTightFrom(text, close, i + 2)
         ELSE <<text[i]>> \o SubTightFrom(text, close, i + 1)

StripTrailingTight(text, close) == SubTightFrom(text, close, 1)

StripTrailing(text, close) == SubFrom(text, close, 1)

\* lines 43-47: array_content to json_str
Normalize(array_content) ==
    StripTrailing(StripTrailing(ReplaceQuotes(array_content), "}"), "]")

-----------------------------------------------------------------------------
(* json.loads *)

\* a decoded value: k is "str", "num", "lit" (true, false, null), "arr" or "obj";
\* e holds the elements of an array or the [key, val] members of an object
V(k, s, e) == [k |-> k, s |-> s, e |-> e]

Fail == [ok |-> FALSE, v |-> V("lit", "null", <<>>), next |-> 0]
Ok(v, next) == [ok |-> TRUE, v |-> v, next |-> next]

RECURSIVE ParseValue(_, _), ParseElems(_, _, _), ParseMembers(_, _, _)

ParseValue(text, i0) ==
    LET i == SkipWs(text, i0)
    IN  IF i > Len(text) THEN Fail
        ELSE CASE text[i].t = "dq" -> Ok(V("str", text[i].s, <<>>), i + 1)
               [] text[i].t = "num" -> Ok(V("num", text[i].s, <<>>), i + 1)
               [] text[i].t = "word" /\ text[i].s \in {"true", "false", "null"} ->
                      Ok(V("lit", text[i].s, <<>>), i + 1)
               [] text[i].t = "[" ->
                      LET j == SkipWs(text, i + 1)
                      IN  IF j <= Len(text) /\ text[j].t = "]"
                          THEN Ok(V("arr", "", <<>>), j + 1)
                          ELSE ParseElems(text, i + 1, <<>>)
               [] text[i].t = "{" ->
                      LET j == SkipWs(text, i + 1)
                      IN  IF j <= Len(text) /\ text[j].t = "}"
                          THEN Ok(V("obj", "", <<>>), j + 1)
                          ELSE ParseMembers(text, i + 1, <<>>)
               [] OTHER -> Fail

ParseElems(text, i, acc) ==
    LET r == ParseValue(text, i)
    IN  IF ~r.ok THEN Fail
        ELSE LET j == SkipWs(text, r.next)
             IN  IF j > Len(text) THEN Fail
                 ELSE IF text[j].t = ","
                      THEN ParseElems(text, j + 1, Append(acc, r.v))
                 ELSE IF text[j].t = "]"
                      THEN Ok(V("arr", "", Append(acc, r.v)), j + 1)
                 ELSE Fail

ParseMembers(text, i, acc) ==
    LET k == SkipWs(text, i)
    IN  IF k > Len(text) \/ text[k].t # "dq" THEN Fail
        ELSE LET c == SkipWs(text, k + 1)
             IN  IF c > Len(text) \/ text[c].t # ":" THEN Fail
                 ELSE LET r == ParseValue(text, c + 1)
                      IN  IF ~r.ok THEN Fail
                          ELSE LET j == SkipWs(text, r.next)
                                   m == [key |-> text[k].s, val |-> r.v]
                               IN  IF j > Len(text) THEN Fail
                                   ELSE IF text[j].t = ","
                                        THEN ParseMembers(text, j + 1, Append(acc, m))
                                   ELSE IF text[j].t = "}"
                                        THEN Ok(V("obj", "", Append(acc, m)), j + 1)
                                   ELSE Fail

\* json.loads(json_str): one value, then nothing but whitespace; ok = FALSE
\* stands for JSONDecodeError
json_loads(text) ==
    LET r == ParseValue(text, 1)
    IN  IF r.ok /\ SkipWs(text, r.next) > Len(text) THEN r ELSE Fail

-----------------------------------------------------------------------------
(* The loop of lines 51-55 over the decoded data *)

Raised(U) == [urls |-> U, raised |-> TRUE]
Kept(U) == [urls |-> U, raised |-> FALSE]

\* 'key' in 'text' for the strings of the model: no string of the model holds
\* another as a proper substring
IsSubstring(key, text) == key = text

\* key in item; defined for dict, list and str
In(key, item) ==
    CASE item.k = "obj" -> \E m \in DOMAIN item.e : item.e[m].key = key
      [] item.k = "arr" -> \E m \in DOMAIN item.e : item.e[m] = V("str", key, <<>>)
      [] item.k = "str" -> IsSubstring(key, item.s)
      [] OTHER -> FALSE

\* item[key] of a dict: the last member of that key wins in json.loads
Get(item, key) ==
    LET at == {m \in DOMAIN item.e : item.e[m].key = key}
    IN  item.e[CHOOSE m \in at : \A n \in at : n <= m].val

\* bool(v)
Truthy(v) ==
    CASE v.k = "str" -> v.s # ""
      [] v.k = "num" -> v.s # "0"
      [] v.k = "lit" -> v.s = "true"
      [] OTHER -> v.e # <<>>

Hashable(v) == v.k \notin {"arr", "obj"}

\* as AddField, without the test 'and item[key]'
AddFieldAnyValue(U, item, key) ==
    IF item.k \notin {"obj", "arr", "str"} THEN Raised(U)
    ELSE IF ~In(key, item) THEN Kept(U)
    ELSE IF item.k # "obj" THEN Raised(U)
    ELSE LET v == Get(item, key)
         IN  IF ~Hashable(v) THEN Raised(U) ELSE Kept(U \cup {v})

\* lines 52-53 (key = "url") and 54-55 (key = "homepageUrl"); raised = TypeError
AddField(U, item, key) ==
    IF item.k \notin {"obj", "arr", "str"} THEN Raised(U)
    ELSE IF ~In(key, item) THEN Kept(U)
    ELSE IF item.k # "obj" THEN Raised(U)
    ELSE LET v == Get(item, key)
         IN  IF ~Truthy(v) THEN Kept(U)
             ELSE IF ~Hashable(v) THEN Raised(U)
             ELSE Kept(U \cup {v})

\* the body of the for loop of line 51
AddItem(U, item) ==
    LET a == AddField(U, item, "url")
    IN  IF a.raised THEN a ELSE AddField(a.urls, item, "homepageUrl")

\* for item in data, from item i on
RECURSIVE CollectFrom(_, _, _)
CollectFrom(U, data, i) ==
    IF i > Len(data.e) THEN Kept(U)
    ELSE LET a == AddItem(U, data.e[i])
         IN  IF a.raised THEN a ELSE CollectFrom(a.urls, data, i + 1)

\* lines 40-59 for one block: failed = JSONDecodeError, raised = TypeError
ProcessBlock(U, array_content) ==
    LET r == json_loads(Normalize(array_content))
    IN  IF ~r.ok THEN [urls |-> U, raised |-> FALSE, failed |-> TRUE]
        ELSE LET c == CollectFrom(U, r.v, 1)
             IN  [urls |-> c.urls, raised |-> c.raised, failed |-> FALSE]

-----------------------------------------------------------------------------
(* check_link *)

StatusCodes == {200, 399, 400, 404}

\* what session.head does: a response, a requests.exceptions.RequestException
\* or another Exception
Outcomes ==
    [kind : {"response"}, code : StatusCodes, info : {""}]
        \cup [kind : {"RequestException"}, code : {0}, info : {"Timeout"}]
        \cup [kind : {"Exception"}, code : {0}, info : {"unexpected"}]

OK == [msg |-> "OK", code |-> 0, info |-> ""]

\* as check_link, the test being status_code > 400
check_link_gt(outcome) ==
    CASE outcome.kind = "response" ->
            IF outcome.code > 400
            THEN [msg |-> "FAILED: Status", code |-> outcome.code, info |-> ""]
            ELSE OK
      [] outcome.kind = "RequestException" ->
            [msg |-> "FAILED: Request Error", code |-> 0, info |-> outcome.info]
      [] OTHER ->
            [msg |-> "FAILED: An unexpected error occurred", code |-> 0,
             info |-> outcome.info]

check_link(outcome) ==
    CASE outcome.kind = "response" ->
            IF outcome.code >= 400
            THEN [msg |-> "FAILED: Status", code |-> outcome.code, info |-> ""]
            ELSE OK
      [] outcome.kind = "RequestException" ->
            [msg |-> "FAILED: Request Error", code |-> 0, info |-> outcome.info]
      [] OTHER ->
            [msg |-> "FAILED: An unexpected error occurred", code |-> 0,
             info |-> outcome.info]

-----------------------------------------------------------------------------
(* The documents the runs are drawn from *)

Url1 == V("str", "u1", <<>>)
Url2 == V("str", "u2", <<>>)

\* {"name":"u2", "url":"u1"}
ItemPrimary ==
    <<P("{"), Str("dq", "name"), P(":"), Str("dq", "u2"), P(","), WS,
      Str("dq", "url"), P(":"), Str("dq", "u1"), P("}")>>

\* {'url':'u2', 'homepageUrl':`u1`, }
ItemBoth ==
    <<P("{"), Str("sq", "url"), P(":"), Str("sq", "u2"), P(","), WS,
      Str("sq", "homepageUrl"), P(":"), Str("bq", "u1"), P(","), WS, P("}")>>

\* {"url":"","homepageUrl":"u2"}
ItemEmptyUrl ==
    <<P("{"), Str("dq", "url"), P(":"), Str("dq", ""), P(","),
      Str("dq", "homepageUrl"), P(":"), Str("dq", "u2"), P("}")>>

\* {"name":"u1"}
ItemNoUrl == <<P("{"), Str("dq", "name"), P(":"), Str("dq", "u1"), P("}")>>

\* {url:"u1"}
ItemBareKey == <<P("{"), Word("url"), P(":"), Str("dq", "u1"), P("}")>>

\* 7
ItemNumber == <<Num("7")>>

ItemTexts ==
    {ItemPrimary, ItemBoth, ItemEmptyUrl, ItemNoUrl, ItemBareKey, ItemNumber}

RECURSIVE Join(_, _)
Join(items, i) ==
    IF i > Len(items) THEN <<>>
    ELSE items[i] \o (IF i < Len(items) THEN <<P(","), WS>> ELSE <<>>)
             \o Join(items, i + 1)

\* const institutes = [a, b];   const jobBoards = [a, b, ];   const other=[];
Declaration(name, items) ==
    <<Word("const"), WS, Word(name), WS, P("="), WS, P("[")>>
        \o Join(items, 1)
        \o (IF name = "jobBoards" /\ items # <<>> THEN <<P(","), WS>> ELSE <<>>)
        \o <<P("]"), P(";"), WS>>

DeclarationsOf(n) ==
    {Declaration(b[1], b[2]) :
        b \in {"institutes", "jobBoards"} \X [1..n -> ItemTexts]}
        \cup (IF n = 0 THEN {Declaration("other", <<>>)} ELSE {})

\* the documents of at most b declarations and at most n items in all
RECURSIVE Documents(_, _)
Documents(b, n) ==
    IF b = 0 THEN {<<>>}
    ELSE {<<>>} \cup
         UNION {{d \o rest : d \in DeclarationsOf(k), rest \in Documents(b - 1, n - k)} :
                    k \in 0..n}

-----------------------------------------------------------------------------
(* The run *)

Init ==
    /\ fileExists \in BOOLEAN
    /\ html_content \in (IF fileExists THEN Documents(MaxBlocks, MaxItems) ELSE {<<>>})
    /\ pc = "open"
    /\ found_arrays = <<>>
    /\ bi = 1
    /\ urls = {}
    /\ warnings = <<>>
    /\ urls_to_check = <<>>
    /\ probes = <<>>
    /\ results = <<>>
    /\ broken_links = <<>>
    /\ reported = -1
    /\ exitCode = -1
    /\ error = "none"

\* sys.exit(code), or the end of main (code 0)
Exit(code) == pc' = "exit" /\ exitCode' = code

\* lines 17-23
ReadFile ==
    /\ pc = "open"
    /\ IF fileExists THEN pc' = "findall" /\ exitCode' = exitCode ELSE Exit(1)
    /\ UNCHANGED <<fileExists, html_content, found_arrays, bi, urls, warnings,
                   urls_to_check, probes, results, broken_links, reported, error>>

\* as FindArrays, without the exit of lines 33-35
FindArraysNoExit ==
    /\ pc = "findall"
    /\ found_arrays' = findall(html_content)
    /\ pc' = "blocks"
    /\ UNCHANGED <<fileExists, html_content, bi, urls, warnings, urls_to_check,
                   probes, results, broken_links, reported, exitCode, error>>

\* lines 25-37
FindArrays ==
    /\ pc = "findall"
    /\ found_arrays' = findall(html_content)
    /\ IF found_arrays' = <<>> THEN Exit(1) ELSE pc' = "blocks" /\ exitCode' = exitCode
    /\ UNCHANGED <<fileExists, html_content, bi, urls, warnings, urls_to_check,
                   probes, results, broken_links, reported, error>>

\* as ParseBlock, a JSONDecodeError ending the run instead of the loop's continue
ParseBlockAbort ==
    /\ pc = "blocks"
    /\ bi <= Len(found_arrays)
    /\ LET r == ProcessBlock(urls, found_arrays[bi].content)
       IN  /\ urls' = r.urls
           /\ warnings' = IF r.failed THEN Append(warnings, found_arrays[bi].name)
                          ELSE warnings
           /\ IF r.raised \/ r.failed
              THEN Exit(1) /\ bi' = bi
                   /\ error' = IF r.raised THEN "TypeError" ELSE "JSONDecodeError"
              ELSE bi' = bi + 1 /\ UNCHANGED <<pc, exitCode, error>>
    /\ UNCHANGED <<fileExists, html_content, found_arrays, urls_to_check, probes,
                   results, broken_links, reported>>

\* lines 39-59: one iteration of the loop over found_arrays
ParseBlock ==
    /\ pc = "blocks"
    /\ bi <= Len(found_arrays)
    /\ LET r == ProcessBlock(urls, found_arrays[bi].content)
       IN  /\ urls' = r.urls
           /\ warnings' = IF r.failed THEN Append(warnings, found_arrays[bi].name)
                          ELSE warnings
           /\ IF r.raised
              THEN Exit(1) /\ error' = "TypeError" /\ bi' = bi
              ELSE bi' = bi + 1 /\ UNCHANGED <<pc, exitCode, error>>
    /\ UNCHANGED <<fileExists, html_content, found_arrays, urls_to_check, probes,
                   results, broken_links, reported>>

\* as ListOf, were urls a list that keeps one URL twice
ListOfRepeat(U) ==
    {l \in [1..Cardinality(U) + 1 -> U] : \A u \in U : \E i \in DOMAIN l : l[i] = u}

\* list(urls): the elements of U in some order
ListOf(U) ==
    {l \in [1..Cardinality(U) -> U] : \A u \in U : \E i \in DOMAIN l : l[i] = u}

\* lines 61-62 and 88-93, some URL found
ReturnUrls ==
    /\ pc = "blocks"
    /\ bi > Len(found_arrays)
    /\ urls # {}
    /\ urls_to_check' \in ListOf(urls)
    /\ pc' = "loop"
    /\ UNCHANGED <<fileExists, html_content, found_arrays, bi, urls, warnings, probes,
                   results, broken_links, reported, exitCode, error>>

\* lines 61-62 and 88-91, no URL found
NoUrls ==
    /\ pc = "blocks"
    /\ bi > Len(found_arrays)
    /\ urls = {}
    /\ Exit(0)
    /\ UNCHANGED <<fileExists, html_content, found_arrays, bi, urls, warnings,
                   urls_to_check, probes, results, broken_links, reported, error>>

\* lines 97-104: one iteration of the loop over urls_to_check
CheckUrl ==
    /\ pc = "loop"
    /\ Len(results) < Len(urls_to_check)
    /\ \E outcome \in Outcomes :
        LET url == urls_to_check[Len(results) + 1]
            status == check_link(outcome)
        IN  /\ probes' = Append(probes, [url |-> url, outcome |-> outcome])
            /\ results' = Append(results, [url |-> url, status |-> status])
            /\ broken_links' = IF status # OK
                               THEN Append(broken_links, [url |-> url, status |-> status])
                               ELSE broken_links
    /\ UNCHANGED <<fileExists, html_content, pc, found_arrays, bi, urls, warnings,
                   urls_to_check, reported, exitCode, error>>

\* as Summary, without the sys.exit(1) of line 115
SummaryExitZero ==
    /\ pc = "loop"
    /\ Len(results) = Len(urls_to_check)
    /\ Exit(0)
    /\ reported' = IF broken_links = <<>> THEN reported ELSE Len(broken_links)
    /\ UNCHANGED <<fileExists, html_content, found_arrays, bi, urls, warnings,
                   urls_to_check, probes, results, broken_links, error>>

\* as Summary, the loop of line 97 being left at the first broken link
SummaryFailFast ==
    /\ pc = "loop"
    /\ Len(results) = Len(urls_to_check) \/ broken_links # <<>>
    /\ IF broken_links = <<>>
       THEN Exit(0) /\ reported' = reported
       ELSE Exit(1) /\ reported' = Len(broken_links)
    /\ UNCHANGED <<fileExists, html_content, found_arrays, bi, urls, warnings,
                   urls_to_check, probes, results, broken_links, error>>

\* lines 107-115
Summary ==
    /\ pc = "loop"
    /\ Len(results) = Len(urls_to_check)
    /\ IF broken_links = <<>>
       THEN Exit(0) /\ reported' = reported
       ELSE Exit(1) /\ reported' = Len(broken_links)
    /\ UNCHANGED <<fileExists, html_content, found_arrays, bi, urls, warnings,
                   urls_to_check, probes, results, broken_links, error>>

Next ==
    \/ ReadFile
    \/ FindArrays
    \/ ParseBlock
    \/ ReturnUrls
    \/ NoUrls
    \/ CheckUrl
    \/ Summary

Spec == Init /\ [][Next]_vars

-----------------------------------------------------------------------------
(* Definitions shared by the properties *)

\* bound of the whitespace that follows an inserted trailing comma
MaxPad == 1

\* the matched blocks of the document
DocBlocks == findall(html_content)

Decoded(array_content) == json_loads(Normalize(array_content))

\* extract_urls_from_js has returned its list to main
Returned == pc \in {"loop", "exit"} /\ error = "none" /\ found_arrays # <<>>

\* extract_urls_from_js has just returned: urls is the set it returned, and no
\* step changes urls afterwards
AtReturn == Returned /\ probes = <<>>

\* main has run to its end
Completed == pc = "exit" /\ Returned

UrlFields == {"url", "homepageUrl"}

\* the values the records of one block hold under 'url' and 'homepageUrl'
FieldValuesOf(array_content) ==
    LET r == Decoded(array_content)
    IN  IF ~r.ok THEN {}
        ELSE UNION {IF r.v.e[i].k = "obj"
                    THEN {r.v.e[i].e[m].val :
                            m \in {n \in DOMAIN r.v.e[i].e : r.v.e[i].e[n].key \in UrlFields}}
                    ELSE {} : i \in DOMAIN r.v.e}

\* the non-empty values under those fields in the blocks of the document that parse
DocUrls ==
    {v \in UNION {FieldValuesOf(DocBlocks[b].content) : b \in DOMAIN DocBlocks} :
        v # V("str", "", <<>>)}

\* the loop of line 39 over a list of blocks, from block i on
RECURSIVE ExtractBlocks(_, _, _)
ExtractBlocks(U, blocks, i) ==
    IF i > Len(blocks) THEN Kept(U)
    ELSE LET r == ProcessBlock(U, blocks[i].content)
         IN  IF r.raised THEN Raised(r.urls) ELSE ExtractBlocks(r.urls, blocks, i + 1)

NonOk == {i \in DOMAIN results : results[i].status # OK}

TimesIn(list, u) == Cardinality({i \in DOMAIN list : list[i].url = u})

\* how often the string u stands under a URL field in the document
UrlOccurrences(u) ==
    Cardinality({i \in 3..Len(html_content) :
        /\ html_content[i].s = u
        /\ html_content[i - 1].t = ":"
        /\ html_content[i - 2].s \in UrlFields})

-----------------------------------------------------------------------------
(* C1 *)

\* the pattern of line 29 matches somewhere in the document
HasBlock == \E i \in DOMAIN html_content : MatchAt(html_content, i).ok

FatalInput == ~fileExists \/ ~HasBlock

\* C1: when the input file is missing or the document holds no matched block, the
\* run never gets past the search for blocks, issues no probe, and its exit code
\* is 1.
C1_FatalInputStopsBeforeAnyProbe ==
    FatalInput =>
        /\ probes = <<>>
        /\ results = <<>>
        /\ pc \in {"open", "findall", "exit"}
        /\ (~fileExists => pc \in {"open", "exit"})
        /\ (pc = "exit" => exitCode = 1)

\* a document that is not empty and holds no matched block, the process having exited
C1_Witness ==
    /\ fileExists
    /\ html_content # <<>>
    /\ ~HasBlock
    /\ pc = "exit"

-----------------------------------------------------------------------------
(* C2 *)

\* C2: when the run has got past extraction and ended, the exit code is 1 exactly
\* when some printed status is not "OK" and 0 otherwise, and the number of broken
\* links the summary reports is the number of statuses that are not "OK".
C2_ExitCodeIffSomeResultNotOk ==
    Completed =>
        /\ exitCode \in {0, 1}
        /\ (exitCode = 1 <=> NonOk # {})
        /\ Len(broken_links) = Cardinality(NonOk)
        /\ (NonOk # {} => reported = Cardinality(NonOk))

\* a run that ended with one status "OK" and one not
C2_Witness ==
    /\ Completed
    /\ NonOk # {}
    /\ NonOk # DOMAIN results

-----------------------------------------------------------------------------
(* C3 *)

\* C3: when the document holds a matched block and no non-empty value under 'url'
\* or 'homepageUrl' in any record, the run ends with exit code 0, an empty result
\* list and no probe.
C3_NoUrlsIsSuccess ==
    (fileExists /\ DocBlocks # <<>> /\ DocUrls = {} /\ pc = "exit") =>
        /\ exitCode = 0
        /\ results = <<>>
        /\ probes = <<>>

-----------------------------------------------------------------------------
(* C4 *)

\* C4: when the run has ended, every URL of the extracted set has been probed
\* exactly once and has exactly one result, so the results are as many as the
\* URLs of the set, also when a URL stands at several places in the document.
C4_EachUrlProbedOnce ==
    Completed =>
        /\ Len(results) = Cardinality(urls)
        /\ Len(probes) = Cardinality(urls)
        /\ \A u \in urls : TimesIn(probes, u) = 1 /\ TimesIn(results, u) = 1
        /\ \A i \in DOMAIN probes : probes[i].url \in urls

\* a run that ended with two results, the URL "u1" standing twice in the document
C4_Witness ==
    /\ Completed
    /\ Len(results) = 2
    /\ UrlOccurrences("u1") >= 2

-----------------------------------------------------------------------------
(* C5 *)

BlockFails(b) == ~Decoded(found_arrays[b].content).ok

C5_Returned ==
    AtReturn =>
        urls = UNION {ProcessBlock({}, found_arrays[b].content).urls :
                        b \in {c \in DOMAIN found_arrays : ~BlockFails(c)}}

C5_Step ==
    (pc = "blocks" /\ bi <= Len(found_arrays) /\ BlockFails(bi)) =>
        /\ urls' = urls
        /\ bi' = bi + 1
        /\ pc' = "blocks"
        /\ exitCode' = -1
        /\ warnings' = Append(warnings, found_arrays[bi].name)

\* C5: the step that meets a block json.loads rejects leaves the URL set as it was,
\* prints a warning and goes on to the next block without ending the process; and
\* the set extraction returns is the union of the URLs of the blocks that parse.
C5_FailedBlockIsSkipped == [](C5_Returned) /\ [][C5_Step]_vars

\* extraction returned URLs of the second block after the first one failed to parse
C5_Witness ==
    /\ Returned
    /\ Len(found_arrays) = 2
    /\ BlockFails(1)
    /\ ~BlockFails(2)
    /\ warnings = <<found_arrays[1].name>>
    /\ urls # {}

-----------------------------------------------------------------------------
(* C6 *)

\* C6: every probe has a result, none ends the process, and the result is "OK" for
\* a response of status below 400, "FAILED: Status <code>" for a response of status
\* 400 or more, "FAILED: Request Error (<kind>)" for a RequestException and
\* "FAILED: An unexpected error occurred (<message>)" for any other exception.
C6_CheckLinkClassifies ==
    /\ Len(results) = Len(probes)
    /\ probes # <<>> => error = "none"
    /\ \A i \in DOMAIN probes :
        LET o == probes[i].outcome
            st == results[i].status
        IN  /\ (o.kind = "response" /\ o.code < 400) => st = OK
            /\ (o.kind = "response" /\ o.code >= 400) =>
                   st = [msg |-> "FAILED: Status", code |-> o.code, info |-> ""]
            /\ o.kind = "RequestException" =>
                   st = [msg |-> "FAILED: Request Error", code |-> 0, info |-> o.info]
            /\ o.kind = "Exception" =>
                   st = [msg |-> "FAILED: An unexpected error occurred", code |-> 0,
                         info |-> o.info]

\* responses of status 399 and 400 have both been classified
C6_Witness ==
    /\ \E i \in DOMAIN probes : probes[i].outcome.code = 399 /\ results[i].status = OK
    /\ \E i \in DOMAIN probes : probes[i].outcome.code = 400 /\ results[i].status # OK

-----------------------------------------------------------------------------
(* C7 *)

\* C7: when the file exists and the document holds a matched block, no uncaught
\* exception ends the run.
C7_RunNeverEndsOnAnError ==
    (fileExists /\ DocBlocks # <<>>) => error = "none"

-----------------------------------------------------------------------------
(* C8 *)

RECURSIVE Back(_, _)
Back(text, i) == IF i >= 1 /\ text[i].t = "ws" THEN Back(text, i - 1) ELSE i

\* the closing braces and brackets no comma stands before yet
InsertionPoints(text) ==
    {p \in 2..Len(text) :
        /\ text[p].t \in {"}", "]"}
        /\ text[Back(text, p - 1)].t # ","}

\* text with a comma and w whitespace characters inserted before position p
WithTrailingComma(text, p, w) ==
    SubSeq(text, 1, p - 1) \o <<P(",")>> \o [i \in 1..w |-> WS]
        \o SubSeq(text, p, Len(text))

\* C8: for every block that parses, putting a trailing comma, followed by
\* whitespace or not, before a closing brace or bracket gives a block that parses
\* too, and extraction over the blocks so changed returns the same URL set.
C8_TrailingCommaPreservesUrls ==
    AtReturn =>
        \A b \in DOMAIN found_arrays :
            ~BlockFails(b) =>
                \A p \in InsertionPoints(found_arrays[b].content), w \in 0..MaxPad :
                    LET variant == WithTrailingComma(found_arrays[b].content, p, w)
                    IN  /\ Decoded(variant).ok
                        /\ ExtractBlocks({}, [found_arrays EXCEPT ![b].content = variant], 1)
                               = Kept(urls)

\* extraction returned two URLs from a block that has both kinds of insertion point
C8_Witness ==
    /\ Returned
    /\ Cardinality(urls) = 2
    /\ \E b \in DOMAIN found_arrays :
        /\ ~BlockFails(b)
        /\ \E p, q \in InsertionPoints(found_arrays[b].content) :
            found_arrays[b].content[p].t = "}" /\ found_arrays[b].content[q].t = "]"

-----------------------------------------------------------------------------
(* C9 *)

\* C9: the URL set extraction returns is the set of the non-empty values that the
\* records of the blocks that parse hold under 'url' and 'homepageUrl'.
C9_UrlsAreTheNonEmptyFieldValues == AtReturn => urls = DocUrls

\* extraction returned {"u2"} from a document that also holds an empty string
\* under a URL field and "u1" under the field 'name'
C9_Witness ==
    /\ Returned
    /\ urls = {Url2}
    /\ \E i \in 3..Len(html_content) :
        /\ html_content[i] = Str("dq", "")
        /\ html_content[i - 2].s \in UrlFields
    /\ \E i \in 3..Len(html_content) :
        /\ html_content[i].s = "u1"
        /\ html_content[i - 2].s = "name"

-----------------------------------------------------------------------------
(* C10 *)

C10_InOrder ==
    /\ Len(probes) = Len(results)
    /\ Len(probes) <= Len(urls_to_check)
    /\ \A i \in DOMAIN probes :
        probes[i].url = urls_to_check[i] /\ results[i].url = urls_to_check[i]
    /\ (broken_links # <<>> /\ Len(probes) < Len(urls_to_check)) =>
            pc = "loop" /\ exitCode = -1
    /\ (pc = "exit" /\ urls_to_check # <<>>) => Len(probes) = Len(urls_to_check)

C10_OneAtATime ==
    /\ Len(probes') \in {Len(probes), Len(probes) + 1}
    /\ Len(probes') = Len(probes) + 1 =>
        /\ Len(results) = Len(probes)
        /\ Len(results') = Len(probes')
        /\ SubSeq(probes', 1, Len(probes)) = probes
    /\ Len(probes') = Len(probes) => probes' = probes

\* C10: the URLs are probed one per step in the order of the list extraction
\* returned, each probe has its result before the next is issued, a status that is
\* not "OK" leaves the run in the loop while URLs remain, and the process exits
\* only once every URL of the list has been probed.
C10_SequentialToTheEnd == [](C10_InOrder) /\ [][C10_OneAtATime]_vars

\* a run that ended with two results, the first of them not "OK"
C10_Witness ==
    /\ pc = "exit"
    /\ Len(results) = 2
    /\ results[1].status # OK
    /\ exitCode = 1

====
